---- MODULE Spec2Model ----
(***************************************************************************)
(* A model of normalizr/normalizr.py: one Normalizr instance, its          *)
(* stop-word set and its cache of compiled character classes, the ten      *)
(* transformation methods and the normalize pipeline that dispatches step  *)
(* names through getattr.                                                  *)
(*                                                                         *)
(* A text is a sequence of characters; a character is a string: the        *)
(* character itself for ASCII, "\t" for the tab, and the code point name   *)
(* ("U+00E1") for a character outside ASCII and for the backquote          *)
(* ("U+0060").  Python's None is NoneValue.                                *)
(***************************************************************************)
EXTENDS Integers, Sequences, FiniteSets, TLC

\* ------------------------------------------------------------ characters

\* The printable ASCII characters in code point order, U+0020 .. U+007E.
Ascii ==
  << " ", "!", "\"", "#", "$", "%", "&", "'", "(", ")", "*", "+", ",", "-", ".", "/",
     "0", "1", "2", "3", "4", "5", "6", "7", "8", "9", ":", ";", "<", "=", ">", "?",
     "@", "A", "B", "C", "D", "E", "F", "G", "H", "I", "J", "K", "L", "M", "N", "O",
     "P", "Q", "R", "S", "T", "U", "V", "W", "X", "Y", "Z", "[", "\\", "]", "^", "_",
     "U+0060", "a", "b", "c", "d", "e", "f", "g", "h", "i", "j", "k", "l", "m", "n", "o",
     "p", "q", "r", "s", "t", "u", "v", "w", "x", "y", "z", "{", "|", "}", "~" >>

\* The characters outside printable ASCII that the inputs use, with their code
\* points: the tab, (c) COPYRIGHT SIGN, a WITH ACUTE, COMBINING ACUTE ACCENT,
\* GRINNING FACE.
Extra ==
  << <<"\t", 9>>, <<"U+00A9", 169>>, <<"U+00E1", 225>>, <<"U+0301", 769>>,
     <<"U+1F600", 128512>> >>

Char == {Ascii[i] : i \in DOMAIN Ascii} \cup {Extra[i][1] : i \in DOMAIN Extra}

\* ord(c): the code point, the order sorted() puts characters in.
Ord ==
  [c \in Char |->
     IF \E i \in DOMAIN Ascii : Ascii[i] = c
       THEN 31 + (CHOOSE i \in DOMAIN Ascii : Ascii[i] = c)
       ELSE Extra[CHOOSE i \in DOMAIN Extra : Extra[i][1] = c][2]]

\* Python's None: no character is named None, so it equals no text.
NoneValue == <<"None">>

\* str.isspace of one character: what str.split() splits on.
IsSpace(c) == c = " " \/ c = "\t"

\* str.lower of one character.
LowerChar(c) == IF Ord[c] >= 65 /\ Ord[c] <= 90 THEN Ascii[Ord[c] - 31 + 32] ELSE c

\* str.lower.
Lower(s) == [i \in DOMAIN s |-> LowerChar(s[i])]

\* string.punctuation as a set: the class attribute __punctuation.
punctuation ==
  { "!", "\"", "#", "$", "%", "&", "'", "(", ")", "*", "+", ",", "-", ".", "/", ":",
    ";", "<", "=", ">", "?", "@", "[", "\\", "]", "^", "_", "U+0060", "{", "|", "}", "~" }

\* unicodedata.category, on the characters of Char.
category(c) ==
  CASE c = "U+0301" -> "Mn"
    [] c = "$" -> "Sc"
    [] c \in {"^", "U+0060"} -> "Sk"
    [] c \in {"+", "<", "=", ">", "|", "~"} -> "Sm"
    [] c \in {"U+00A9", "U+1F600"} -> "So"
    [] c = " " -> "Zs"
    [] c = "\t" -> "Cc"
    [] c = "U+00E1" -> "Ll"
    [] Ord[c] >= 48 /\ Ord[c] <= 57 -> "Nd"
    [] Ord[c] >= 65 /\ Ord[c] <= 90 -> "Lu"
    [] Ord[c] >= 97 /\ Ord[c] <= 122 -> "Ll"
    [] OTHER -> "P"

\* ------------------------------------------------------------ str helpers

RECURSIVE Concat(_)
\* ''.join(parts) for a sequence of texts.
Concat(parts) ==
  IF parts = <<>> THEN <<>> ELSE Head(parts) \o Concat(Tail(parts))

RECURSIVE Join(_, _)
\* sep.join(parts).
Join(sep, parts) ==
  IF parts = <<>> THEN <<>>
  ELSE IF Len(parts) = 1 THEN parts[1]
  ELSE parts[1] \o sep \o Join(sep, Tail(parts))

\* The whitespace characters.
Whitespace == {" ", "\t"}

RECURSIVE SplitOn(_, _, _, _)
\* The pieces of s between the separators seps, empty pieces included: acc
\* holds the finished pieces, cur the piece being read.
SplitOn(s, seps, acc, cur) ==
  IF s = <<>> THEN Append(acc, cur)
  ELSE IF Head(s) \in seps THEN SplitOn(Tail(s), seps, Append(acc, cur), <<>>)
  ELSE SplitOn(Tail(s), seps, acc, Append(cur, Head(s)))

\* str.split(): on runs of whitespace, no empty piece.
Split(s) == SelectSeq(SplitOn(s, Whitespace, <<>>, <<>>), LAMBDA w : w # <<>>)

\* str.split(' '): on every single space, empty pieces kept.
SplitSpace(s) == SplitOn(s, {" "}, <<>>, <<>>)

\* str.strip().
RECURSIVE LStrip(_)
LStrip(s) == IF s # <<>> /\ IsSpace(Head(s)) THEN LStrip(Tail(s)) ELSE s

RECURSIVE RStrip(_)
RStrip(s) ==
  IF s # <<>> /\ IsSpace(s[Len(s)]) THEN RStrip(SubSeq(s, 1, Len(s) - 1)) ELSE s

Strip(s) == RStrip(LStrip(s))

\* sorted(s): the characters of s in code point order, repetitions kept.
Sorted(s) == SortSeq(s, LAMBDA a, b : Ord[a] < Ord[b])

RECURSIVE SetToSeq(_)
\* ''.join(a_set): the members of a set in some order.
SetToSeq(S) ==
  IF S = {} THEN <<>> ELSE LET c == CHOOSE x \in S : TRUE IN <<c>> \o SetToSeq(S \ {c})

\* set(s) of a text.
Range(s) == {s[i] : i \in DOMAIN s}

\* ------------------------------------------------------------ unicodedata

\* The canonical decomposition of one character.
Decompose(c) == IF c = "U+00E1" THEN <<"a", "U+0301">> ELSE <<c>>

\* unicodedata.normalize('NFD' or 'NFKD', text): every character decomposed.
NFKD(text) == Concat([i \in DOMAIN text |-> Decompose(text[i])])

RECURSIVE Compose(_)
\* Canonical composition of a decomposed text: a base character and the
\* combining mark after it become the composed character.
Compose(s) ==
  IF Len(s) < 2 THEN s
  ELSE IF s[1] = "a" /\ s[2] = "U+0301" THEN <<"U+00E1">> \o Compose(Tail(Tail(s)))
  ELSE <<s[1]>> \o Compose(Tail(s))

\* unicodedata.normalize('NFC' or 'NFKC', text).
NFKC(text) == Compose(NFKD(text))

FORMS == {"NFC", "NFKC", "NFD", "NFKD"}

\* unicodedata.normalize(format, text) for a valid format.
UnicodeNormalize(format, text) ==
  IF format \in {"NFD", "NFKD"} THEN NFKD(text) ELSE NFKC(text)

\* ------------------------------------------------------------ re

\* The characters re.escape puts a backslash before.
SpecialChars ==
  { "(", ")", "[", "]", "{", "}", "?", "*", "+", "-", "|", "^", "$", "\\", ".", "&",
    "~", "#", " ", "\t" }

\* re.escape(s).
Escape(s) ==
  Concat([i \in DOMAIN s |-> IF s[i] \in SpecialChars THEN <<"\\", s[i]>> ELSE <<s[i]>>])

RECURSIVE ClassMembers(_)
\* The characters the body of a character class matches: a backslash makes
\* the character after it literal.
ClassMembers(body) ==
  IF body = <<>> THEN {}
  ELSE IF body[1] = "\\" /\ Len(body) >= 2
    THEN {body[2]} \cup ClassMembers(Tail(Tail(body)))
  ELSE {body[1]} \cup ClassMembers(Tail(body))

\* re.compile("[%s]" % escaped): the pattern of the compiled matcher.
CompileClass(escaped) == <<"[">> \o escaped \o <<"]">>

\* What a compiled character class "[...]" matches.
Matches(pattern) == ClassMembers(SubSeq(pattern, 2, Len(pattern) - 1))

\* pattern.sub(replacement, text) for a compiled character class.
ClassSub(pattern, replacement, text) ==
  LET m == Matches(pattern)
  IN  Concat([i \in DOMAIN text |-> IF text[i] \in m THEN replacement ELSE <<text[i]>>])

RECURSIVE Runs(_, _, _)
\* text cut into its maximal runs of whitespace and of other characters.
Runs(s, acc, cur) ==
  IF s = <<>> THEN (IF cur = <<>> THEN acc ELSE Append(acc, cur))
  ELSE IF cur # <<>> /\ IsSpace(cur[1]) # IsSpace(Head(s))
    THEN Runs(Tail(s), Append(acc, cur), <<Head(s)>>)
  ELSE Runs(Tail(s), acc, Append(cur, Head(s)))

\* regex.EMAIL_REGEX matches a run of characters other than whitespace around
\* an "@".
EMAIL_REGEX(run) ==
  \E i \in 2..(Len(run) - 1) : run[i] = "@" /\ ~IsSpace(run[1])

\* regex.URL_REGEX matches a run that holds "://" after a scheme.
URL_REGEX(run) ==
  \E i \in 2..(Len(run) - 2) : run[i] = ":" /\ run[i + 1] = "/" /\ run[i + 2] = "/"

\* re.sub(regex.EMAIL_REGEX, replacement, text).
EmailSub(replacement, text) ==
  LET runs == Runs(text, <<>>, <<>>)
  IN  Concat([i \in DOMAIN runs |-> IF EMAIL_REGEX(runs[i]) THEN replacement ELSE runs[i]])

\* re.sub(regex.URL_REGEX, replacement, text).
UrlSub(replacement, text) ==
  LET runs == Runs(text, <<>>, <<>>)
  IN  Concat([i \in DOMAIN runs |-> IF URL_REGEX(runs[i]) THEN replacement ELSE runs[i]])

\* regex.EMOJI_REGEX: one emoji character.
EMOJI_REGEX == <<"[", "U+1F600", "]">>

\* ------------------------------------------------------------ outcomes

\* What a call leaves: the instance after it, the value returned or the
\* exception raised, and what it did on the way: how many times it read the
\* stop-word resource, which cache keys it compiled a matcher for, and which
\* attributes normalize looked up and called, in order.
Return(self, value) ==
  [self |-> self, ret |-> value, err |-> "none", loads |-> 0, compiled |-> {},
   invoked |-> <<>>]

Raise(self, error) ==
  [self |-> self, ret |-> NoneValue, err |-> error, loads |-> 0, compiled |-> {},
   invoked |-> <<>>]

\* o2 ran after o1: the effects of both.
After(o1, o2) ==
  [o2 EXCEPT !.loads = o1.loads + o2.loads, !.compiled = o1.compiled \cup o2.compiled,
             !.invoked = o1.invoked \o o2.invoked]

\* ------------------------------------------------------------ data files

en == <<"e", "n">>
xx == <<"x", "x">>
zz == <<"z", "z">>

\* The directory data/: stop-en lists words, the first line with a comment
\* after a "|"; stop-xx exists and lists no word; there is no stop-zz.
StopFiles ==
  (en :> << <<"t", "h", "e", " ", "a", "|", "x">>, <<"o", "f">> >>)
    @@ (xx :> << <<"|", " ", "x">> >>)

\* The words of one line: line.split('|')[0].split(), each stripped.
LineWords(line) ==
  LET fields == SplitOn(line, {"|"}, <<>>, <<>>)
      words == Split(fields[1])
  IN  {Strip(words[i]) : i \in DOMAIN words}

\* ------------------------------------------------------------ arguments

\* An argument that may be None, a set or a str/list: None, set(S), "abc".
PyNone == [type |-> "NoneType", value |-> {}]
PySet(S) == [type |-> "set", value |-> S]
PyStr(s) == [type |-> "str", value |-> Range(s)]

\* **kwargs with no entry.
NoKwargs == [k \in {} |-> 0]

\* kwargs.get(name, default): the parameter's value in a call.
Opt(kwargs, name, default) == IF name \in DOMAIN kwargs THEN kwargs[name] ELSE default

\* Whether method(text, **kwargs) binds: every keyword is a parameter of the
\* method and every parameter without a default is given.  Otherwise the call
\* raises TypeError.
Binds(kwargs, params, required) ==
  DOMAIN kwargs \subseteq params /\ required \subseteq DOMAIN kwargs

\* ------------------------------------------------------------ Normalizr

\* The instance: __language, __stop_words, __characters_regexes (cache key ->
\* pattern of the compiled matcher).  lazy_load and loaded are not attributes:
\* they remember the argument __init__ was given and whether a read of the
\* stop-word resource has completed since.
NewSelf(language, lazy_load) ==
  [language |-> language, stop_words |-> {}, characters_regexes |-> NoKwargs,
   lazy_load |-> lazy_load, loaded |-> FALSE]

_load_stop_words(self, language) ==
  IF language = NoneValue THEN Raise(self, "TypeError")
  ELSE IF language \notin DOMAIN StopFiles THEN Raise(self, "IOError")
  ELSE LET lines == StopFiles[language]
           words == UNION {LineWords(lines[i]) : i \in DOMAIN lines}
       IN  [Return([self EXCEPT !.stop_words = @ \cup words, !.loaded = TRUE], NoneValue)
              EXCEPT !.loads = 1]

__init__(self, language, lazy_load) ==
  LET fresh == NewSelf(language, lazy_load)
  IN  IF ~lazy_load THEN _load_stop_words(fresh, language) ELSE Return(fresh, NoneValue)

remove_accent_marks(self, text, excluded) ==
  IF text = NoneValue THEN Raise(self, "TypeError")
  ELSE IF excluded.type = "NoneType" /\ \E c \in Range(NFKD(text)) : category(c) = "Mn"
    THEN Raise(self, "TypeError")
  ELSE Return(self,
         NFKC(SelectSeq(NFKD(text),
                        LAMBDA c : category(c) # "Mn" \/ c \in excluded.value)))

remove_extra_whitespaces(self, text) ==
  IF text = NoneValue THEN Raise(self, "AttributeError")
  ELSE Return(self, Join(<<" ">>, Split(text)))

remove_stop_words(self, text, ignore_case) ==
  LET o == IF self.stop_words = {}
             THEN _load_stop_words(self, self.language)
             ELSE Return(self, NoneValue)
  IN  IF o.err # "none" THEN o
      ELSE IF text = NoneValue THEN After(o, Raise(o.self, "AttributeError"))
      ELSE After(o, Return(o.self,
             Join(<<" ">>,
                  SelectSeq(SplitSpace(text),
                            LAMBDA word : (IF ignore_case THEN Lower(word) ELSE word)
                                            \notin o.self.stop_words))))

replace_emails(self, text, replacement) ==
  IF text = NoneValue THEN Raise(self, "TypeError")
  ELSE Return(self, EmailSub(replacement, text))

replace_emojis(self, text, replacement) ==
  IF text = NoneValue THEN Raise(self, "TypeError")
  ELSE Return(self, ClassSub(EMOJI_REGEX, replacement, text))

\* replace_characters without its early return for empty characters.
ReplaceCharactersUnguarded(self, text, characters, replacement) ==
  LET key == Sorted(characters)
      hit == key \in DOMAIN self.characters_regexes
      characters_regex ==
        IF hit THEN self.characters_regexes[key] ELSE CompileClass(Escape(key))
      self1 ==
        IF hit THEN self
        ELSE [self EXCEPT !.characters_regexes = (key :> characters_regex) @@ @]
      o == IF text = NoneValue THEN Raise(self1, "TypeError")
           ELSE Return(self1, ClassSub(characters_regex, replacement, text))
  IN  [o EXCEPT !.compiled = IF hit THEN {} ELSE {key}]

replace_characters(self, text, characters, replacement) ==
  IF characters = <<>> THEN Return(self, text)
  ELSE LET key == Sorted(characters)
           hit == key \in DOMAIN self.characters_regexes
           characters_regex ==
             IF hit THEN self.characters_regexes[key] ELSE CompileClass(Escape(key))
           self1 ==
             IF hit THEN self
             ELSE [self EXCEPT !.characters_regexes = (key :> characters_regex) @@ @]
           o == IF text = NoneValue THEN Raise(self1, "TypeError")
                ELSE Return(self1, ClassSub(characters_regex, replacement, text))
       IN  [o EXCEPT !.compiled = IF hit THEN {} ELSE {key}]

replace_hyphens(self, text, replacement) ==
  IF text = NoneValue THEN Raise(self, "AttributeError")
  ELSE Return(self, Concat([i \in DOMAIN text |->
                              IF text[i] = "-" THEN replacement ELSE <<text[i]>>]))

replace_punctuation(self, text, excluded, replacement) ==
  LET punct == SetToSeq(punctuation \ excluded.value)
  IN  replace_characters(self, text, punct, replacement)

replace_symbols(self, text, format, excluded, replacement) ==
  IF text = NoneValue THEN Raise(self, "TypeError")
  ELSE IF format \notin FORMS THEN Raise(self, "ValueError")
  ELSE LET categories == {"Mn", "Sc", "Sk", "Sm", "So"}
           s == UnicodeNormalize(format, text)
       IN  IF excluded.type = "NoneType" /\ \E c \in Range(s) : category(c) \in categories
             THEN Raise(self, "TypeError")
           ELSE Return(self, Concat([i \in DOMAIN s |->
                    IF category(s[i]) \notin categories \/ s[i] \in excluded.value
                      THEN <<s[i]>> ELSE replacement]))

replace_urls(self, text, replacement) ==
  IF text = NoneValue THEN Raise(self, "TypeError")
  ELSE Return(self, UrlSub(replacement, text))

\* ------------------------------------------------------------ normalize

\* A list argument.
PyList(l) == [type |-> "list", value |-> l]

\* A step given as a bare name, and one given as a (name, options) pair.
Bare(name) == [name |-> name]
Pair(name, kwargs) == [name |-> name, kwargs |-> kwargs]

\* A default list that removes stop words before it collapses whitespace.
DefaultsReordered ==
  << Bare("remove_stop_words"), Bare("replace_punctuation"),
     Bare("replace_symbols"), Bare("remove_extra_whitespaces") >>

DEFAULT_NORMALIZATIONS ==
  << Bare("remove_extra_whitespaces"), Bare("replace_punctuation"),
     Bare("replace_symbols"), Bare("remove_stop_words") >>

\* The ten transformation methods.
Operations ==
  { "remove_accent_marks", "remove_extra_whitespaces", "remove_stop_words",
    "replace_emails", "replace_emojis", "replace_characters", "replace_hyphens",
    "replace_punctuation", "replace_symbols", "replace_urls" }

\* The attributes getattr(self, name) finds that are callable, and those that
\* are not (the name-mangled private attributes).  The instance has further
\* attributes (_get_logger, _parse_normalizations, the logger, those every
\* object has); no step list here names them.
Methods == Operations \cup {"normalize", "_load_stop_words", "__init__"}
DataAttributes ==
  {"_Normalizr__language", "_Normalizr__stop_words", "_Normalizr__characters_regexes"}

\* A parse that keeps the name of every step and drops the options of a pair.
ParseWithoutOptions(normalizations) ==
  [i \in DOMAIN normalizations |-> [name |-> normalizations[i].name, kwargs |-> [k \in {} |-> 0]]]

\* isinstance(normalization, str_type) and the pair it yields.
_parse_normalizations(normalizations) ==
  [i \in DOMAIN normalizations |->
     IF "kwargs" \notin DOMAIN normalizations[i]
       THEN Pair(normalizations[i].name, NoKwargs)
       ELSE normalizations[i]]

\* A default that stands in for None alone: an empty list runs no step.
StepsToRunWhenNone(normalizations) ==
  IF normalizations.type = "NoneType"
    THEN << [name |-> "remove_extra_whitespaces"], [name |-> "replace_punctuation"],
            [name |-> "replace_symbols"], [name |-> "remove_stop_words"] >>
    ELSE normalizations.value

\* normalizations or DEFAULT_NORMALIZATIONS.
StepsToRun(normalizations) ==
  IF normalizations.type = "NoneType" \/ normalizations.value = <<>>
    THEN DEFAULT_NORMALIZATIONS
    ELSE normalizations.value

RECURSIVE normalize(_, _, _)
RECURSIVE RunSteps(_, _, _)
RECURSIVE CallMethod(_, _, _, _)

\* method(text, **kwargs) for a bound method of the instance.
CallMethod(self, name, text, kwargs) ==
  LET bad == Raise(self, "TypeError")
      repl == Opt(kwargs, "replacement", <<>>)
      excl == Opt(kwargs, "excluded", PySet({}))
  IN  CASE name = "remove_accent_marks" ->
             IF Binds(kwargs, {"excluded"}, {})
               THEN remove_accent_marks(self, text, excl) ELSE bad
        [] name = "remove_extra_whitespaces" ->
             IF Binds(kwargs, {}, {}) THEN remove_extra_whitespaces(self, text) ELSE bad
        [] name = "remove_stop_words" ->
             IF Binds(kwargs, {"ignore_case"}, {})
               THEN remove_stop_words(self, text, Opt(kwargs, "ignore_case", TRUE)) ELSE bad
        [] name = "replace_emails" ->
             IF Binds(kwargs, {"replacement"}, {})
               THEN replace_emails(self, text, repl) ELSE bad
        [] name = "replace_emojis" ->
             IF Binds(kwargs, {"replacement"}, {})
               THEN replace_emojis(self, text, repl) ELSE bad
        [] name = "replace_characters" ->
             IF Binds(kwargs, {"characters", "replacement"}, {"characters"})
               THEN replace_characters(self, text, kwargs.characters, repl) ELSE bad
        [] name = "replace_hyphens" ->
             IF Binds(kwargs, {"replacement"}, {})
               THEN replace_hyphens(self, text, Opt(kwargs, "replacement", <<" ">>)) ELSE bad
        [] name = "replace_punctuation" ->
             IF Binds(kwargs, {"excluded", "replacement"}, {})
               THEN replace_punctuation(self, text, Opt(kwargs, "excluded", PyNone), repl)
               ELSE bad
        [] name = "replace_symbols" ->
             IF Binds(kwargs, {"format", "excluded", "replacement"}, {})
               THEN replace_symbols(self, text, Opt(kwargs, "format", "NFKD"), excl, repl)
               ELSE bad
        [] name = "replace_urls" ->
             IF Binds(kwargs, {"replacement"}, {})
               THEN replace_urls(self, text, repl) ELSE bad
        [] name = "normalize" ->
             IF Binds(kwargs, {"normalizations"}, {})
               THEN normalize(self, text, Opt(kwargs, "normalizations", PyNone)) ELSE bad
        [] name = "_load_stop_words" ->
             IF Binds(kwargs, {}, {}) THEN _load_stop_words(self, text) ELSE bad
        [] name = "__init__" ->
             IF Binds(kwargs, {"lazy_load", "logger_level"}, {})
               THEN __init__(self, text, Opt(kwargs, "lazy_load", FALSE)) ELSE bad

\* getattr(self, normalization)(text, **kwargs): a name that is no attribute
\* raises AttributeError, an attribute that is not callable TypeError.
GetattrCall(self, name, text, kwargs) ==
  IF name \notin Methods \cup DataAttributes THEN Raise(self, "AttributeError")
  ELSE IF name \in DataAttributes THEN Raise(self, "TypeError")
  ELSE After([Return(self, NoneValue) EXCEPT !.invoked = <<name>>],
             CallMethod(self, name, text, kwargs))

\* The loop of normalize over the parsed steps.
RunSteps(self, text, steps) ==
  IF steps = <<>> THEN Return(self, text)
  ELSE LET o == GetattrCall(self, Head(steps).name, text, Head(steps).kwargs)
       IN  IF o.err # "none" THEN o
           ELSE After(o, RunSteps(o.self, o.ret, Tail(steps)))

normalize(self, text, normalizations) ==
  RunSteps(self, text, _parse_normalizations(StepsToRun(normalizations)))

\* ------------------------------------------------------------ inputs

\* " The  a<tab>of c(a-acute)t-+(c)!": extra whitespace, stop words in both
\* cases, an accented letter, punctuation, a hyphen and symbols.
Sentence ==
  << " ", "T", "h", "e", " ", " ", "a", "\t", "o", "f", " ", "c", "U+00E1", "t", "-",
     "+", "U+00A9", "!" >>

\* "a@b x://y (emoji)ba": an email address, a URL, an emoji.
Contact == << "a", "@", "b", " ", "x", ":", "/", "/", "y", " ", "U+1F600", "b", "a" >>

\* The texts the calls are given; one of them is also a language code.
Texts == {Sentence, Contact, en}

\* The language codes an instance is constructed with.
Languages == {en, xx, zz}

Replacements == {<<>>, <<"_">>}

\* The characters arguments of replace_characters: none, and one set of
\* characters written in two orders and with a repetition.
CharacterArgs == {<<>>, <<"b", "a">>, <<"a", "b">>, <<"a", "a", "b">>}

\* The steps the generated step lists are made of.
StepEntries ==
  { Bare("remove_stop_words"), Bare("replace_punctuation"),
    Pair("replace_characters", [characters |-> <<"b", "a">>]),
    Bare("no_such_step"), Bare("__init__") }

\* The longest generated step list.
MaxSteps == 2

GeneratedLists == UNION {[1..n -> StepEntries] : n \in 0..MaxSteps}

\* The four names of the documented default pipeline, as a caller writes them.
FourSteps ==
  << Bare("remove_extra_whitespaces"), Bare("replace_punctuation"),
     Bare("replace_symbols"), Bare("remove_stop_words") >>

\* Step lists given as written: the default list spelled out, as names and as
\* pairs; every operation as a bare name and as a pair; options no operation
\* has; attributes of the instance that are no operation.
WrittenLists ==
  { FourSteps,
    << Pair("remove_extra_whitespaces", NoKwargs), Pair("replace_punctuation", NoKwargs),
       Pair("replace_symbols", NoKwargs), Pair("remove_stop_words", NoKwargs) >>,
    << Bare("_Normalizr__language") >>,
    << Bare("normalize") >>,
    << Bare("_load_stop_words") >>,
    << Pair("replace_hyphens", [replacement |-> <<"_">>]), Bare("replace_hyphens") >>,
    << Pair("replace_hyphens", [replace |-> <<"_">>]) >> }
    \cup {<<Bare(name)>> : name \in Operations}
    \cup {<<Pair(name, NoKwargs)>> : name \in Operations}
    \cup {<<Pair(name, [replacement |-> <<"_">>]), Bare("remove_extra_whitespaces")>> :
            name \in {"replace_emails", "replace_emojis", "replace_urls", "replace_symbols"}}
    \cup {<<Pair("replace_characters", [characters |-> <<>>, replacement |-> <<"_">>])>>,
          <<Pair("remove_accent_marks", [excluded |-> PySet({"U+0301"})])>>,
          <<Pair("remove_stop_words", [ignore_case |-> FALSE])>>}

StepLists == GeneratedLists \cup WrittenLists

\* ------------------------------------------------------------ the session

\* phase: "new" before the constructor runs, "failed" when it raised, "idle"
\* between calls, "returned" when a call has just ended and call holds what
\* was called and what came of it.  instance is the Normalizr object, before
\* the object as the call that has just ended found it.
VARIABLES phase, instance, call, before

vars == <<phase, instance, call, before>>

NoCall ==
  [op |-> "none", text |-> <<>>, kwargs |-> NoKwargs, ret |-> NoneValue, err |-> "none",
   loads |-> 0, compiled |-> {}, invoked |-> <<>>]

CallRecord(op, text, kwargs, o) ==
  [op |-> op, text |-> text, kwargs |-> kwargs, ret |-> o.ret, err |-> o.err,
   loads |-> o.loads, compiled |-> o.compiled, invoked |-> o.invoked]

Init ==
  /\ phase = "new"
  /\ instance = NewSelf(NoneValue, TRUE)
  /\ call = NoCall
  /\ before = instance

\* Normalizr(language, lazy_load=lazy_load).
Construct ==
  /\ phase = "new"
  /\ \E language \in Languages, lazy_load \in BOOLEAN :
       LET o == __init__(instance, language, lazy_load)
       IN  /\ instance' = o.self
           /\ call' = CallRecord("__init__", language, [lazy_load |-> lazy_load], o)
           /\ before' = instance
           /\ phase' = IF o.err = "none" THEN "returned" ELSE "failed"

\* instance.op(text, **kwargs), called by the user: what comes of it.
Called(op, text, kwargs) == CallMethod(instance, op, text, kwargs)

RemoveAccentMarks ==
  \E text \in Texts,
     kwargs \in {NoKwargs, [excluded |-> PySet({"U+0301"})]} :
    LET o == Called("remove_accent_marks", text, kwargs)
    IN  /\ phase = "idle"
        /\ phase' = "returned"
        /\ instance' = o.self
        /\ call' = CallRecord("remove_accent_marks", text, kwargs, o)
        /\ before' = instance

RemoveExtraWhitespaces ==
  \E text \in Texts,
     kwargs \in {NoKwargs} :
    LET o == Called("remove_extra_whitespaces", text, kwargs)
    IN  /\ phase = "idle"
        /\ phase' = "returned"
        /\ instance' = o.self
        /\ call' = CallRecord("remove_extra_whitespaces", text, kwargs, o)
        /\ before' = instance

RemoveStopWords ==
  \E text \in Texts,
     kwargs \in {NoKwargs} \cup [ignore_case : BOOLEAN] :
    LET o == Called("remove_stop_words", text, kwargs)
    IN  /\ phase = "idle"
        /\ phase' = "returned"
        /\ instance' = o.self
        /\ call' = CallRecord("remove_stop_words", text, kwargs, o)
        /\ before' = instance

ReplaceEmails ==
  \E text \in Texts,
     kwargs \in {NoKwargs} \cup [replacement : Replacements] :
    LET o == Called("replace_emails", text, kwargs)
    IN  /\ phase = "idle"
        /\ phase' = "returned"
        /\ instance' = o.self
        /\ call' = CallRecord("replace_emails", text, kwargs, o)
        /\ before' = instance

ReplaceEmojis ==
  \E text \in Texts,
     kwargs \in {NoKwargs} \cup [replacement : Replacements] :
    LET o == Called("replace_emojis", text, kwargs)
    IN  /\ phase = "idle"
        /\ phase' = "returned"
        /\ instance' = o.self
        /\ call' = CallRecord("replace_emojis", text, kwargs, o)
        /\ before' = instance

ReplaceCharacters ==
  \E text \in Texts,
     kwargs \in [characters : CharacterArgs]
                  \cup [characters : {<<>>, <<"a", "b">>}, replacement : {<<"_">>}] :
    LET o == Called("replace_characters", text, kwargs)
    IN  /\ phase = "idle"
        /\ phase' = "returned"
        /\ instance' = o.self
        /\ call' = CallRecord("replace_characters", text, kwargs, o)
        /\ before' = instance

ReplaceHyphens ==
  \E text \in Texts,
     kwargs \in {NoKwargs} \cup [replacement : Replacements] :
    LET o == Called("replace_hyphens", text, kwargs)
    IN  /\ phase = "idle"
        /\ phase' = "returned"
        /\ instance' = o.self
        /\ call' = CallRecord("replace_hyphens", text, kwargs, o)
        /\ before' = instance

ReplacePunctuation ==
  \E text \in Texts,
     kwargs \in {NoKwargs, [excluded |-> PyNone, replacement |-> <<"_">>]} :
    LET o == Called("replace_punctuation", text, kwargs)
    IN  /\ phase = "idle"
        /\ phase' = "returned"
        /\ instance' = o.self
        /\ call' = CallRecord("replace_punctuation", text, kwargs, o)
        /\ before' = instance

ReplaceSymbols ==
  \E text \in Texts,
     kwargs \in {NoKwargs, [format |-> "NFC"],
                 [excluded |-> PyStr(<<"+">>), replacement |-> <<"_">>]} :
    LET o == Called("replace_symbols", text, kwargs)
    IN  /\ phase = "idle"
        /\ phase' = "returned"
        /\ instance' = o.self
        /\ call' = CallRecord("replace_symbols", text, kwargs, o)
        /\ before' = instance

ReplaceUrls ==
  \E text \in Texts,
     kwargs \in {NoKwargs} \cup [replacement : Replacements] :
    LET o == Called("replace_urls", text, kwargs)
    IN  /\ phase = "idle"
        /\ phase' = "returned"
        /\ instance' = o.self
        /\ call' = CallRecord("replace_urls", text, kwargs, o)
        /\ before' = instance

\* instance.normalize(text) and instance.normalize(text, normalizations).
Normalize ==
  \E text \in Texts,
     kwargs \in {NoKwargs} \cup {[normalizations |-> PyList(l)] : l \in StepLists} :
    LET o == Called("normalize", text, kwargs)
    IN  /\ phase = "idle"
        /\ phase' = "returned"
        /\ instance' = o.self
        /\ call' = CallRecord("normalize", text, kwargs, o)
        /\ before' = instance

\* The caller drops the result and is ready for its next call.
Release ==
  /\ phase = "returned"
  /\ phase' = "idle"
  /\ call' = NoCall
  /\ before' = instance
  /\ UNCHANGED instance

Next ==
  \/ Construct
  \/ RemoveAccentMarks
  \/ RemoveExtraWhitespaces
  \/ RemoveStopWords
  \/ ReplaceEmails
  \/ ReplaceEmojis
  \/ ReplaceCharacters
  \/ ReplaceHyphens
  \/ ReplacePunctuation
  \/ ReplaceSymbols
  \/ ReplaceUrls
  \/ Normalize
  \/ Release

Spec == Init /\ [][Next]_vars

\* ------------------------------------------------------------ properties

\* Whether call c is a normalize call that was given a step list.
HasList(c) == c.op = "normalize" /\ "normalizations" \in DOMAIN c.kwargs

\* The step list of such a call, and the names in a step list.
ListOf(c) == c.kwargs.normalizations.value
Names(list) == {list[i].name : i \in DOMAIN list}

RECURSIVE InOrder(_, _, _)
\* The steps of list called one after the other as methods of the instance,
\* left to right, each on the text the one before returned and with its own
\* options (none for a bare name), until one raises.
InOrder(self, text, list) ==
  IF list = <<>> THEN Return(self, text)
  ELSE LET step == list[1]
           o == CallMethod(self, step.name, text,
                           IF "kwargs" \in DOMAIN step THEN step.kwargs ELSE NoKwargs)
       IN  IF o.err # "none" THEN o ELSE After(o, InOrder(o.self, o.ret, Tail(list)))

\* Call c returned or raised what o says and left the instance o says.
SameOutcome(c, inst, o) == c.ret = o.ret /\ c.err = o.err /\ inst = o.self

FourNames ==
  <<"remove_extra_whitespaces", "replace_punctuation", "replace_symbols",
    "remove_stop_words">>

\* Call c called the four default steps in their order, as far as it got.
RanFourSteps(c) ==
  /\ Len(c.invoked) <= 4
  /\ c.invoked = SubSeq(FourNames, 1, Len(c.invoked))
  /\ c.err = "none" => Len(c.invoked) = 4

Cat == <<"c", "a", "t">>

\* C1 as stated: for every text and every step list whose names are all
\* transformation operations, normalize returns what calling the steps left to
\* right returns, each step on the text of the step before and with its own
\* options, a bare name like a pair with no options.
C1_EveryStepList ==
  (HasList(call) /\ Names(ListOf(call)) \subseteq Operations)
       => SameOutcome(call, instance, InOrder(before, call.text, ListOf(call)))

\* C1 amended: the same for every step list that is not empty.
C1_NonEmptyStepList ==
  (HasList(call) /\ ListOf(call) # <<>> /\ Names(ListOf(call)) \subseteq Operations)
       => SameOutcome(call, instance, InOrder(before, call.text, ListOf(call)))

\* C1 witness: a list of two steps, the first a pair with an option and the
\* second a bare name, has run on the sentence.
C1_Witness ==
  /\ HasList(call)
  /\ ListOf(call) = << Pair("replace_hyphens", [replacement |-> <<"_">>]),
                       Bare("replace_hyphens") >>
  /\ call.text = Sentence
  /\ call.err = "none"
  /\ "_" \in Range(call.ret)
  /\ "-" \notin Range(call.ret)

\* C2: normalize called without a step list runs remove_extra_whitespaces,
\* replace_punctuation, replace_symbols, remove_stop_words, in that order and
\* without options: it returns and leaves what those four names given as the
\* step list do.
C2_DefaultPipeline ==
  (call.op = "normalize" /\ call.kwargs = NoKwargs)
       => /\ SameOutcome(call, instance, InOrder(before, call.text, FourSteps))
          /\ RanFourSteps(call)

\* C2 witness: normalize(sentence) has returned "cat".
C2_Witness ==
  /\ call.op = "normalize"
  /\ call.kwargs = NoKwargs
  /\ call.text = Sentence
  /\ call.err = "none"
  /\ call.ret = Cat

\* C3 as stated: a normalize call whose step list holds a name that is none of
\* the ten operations fails, and no name outside the ten is looked up and called.
C3_ClosedSet ==
  (HasList(call) /\ ~(Names(ListOf(call)) \subseteq Operations))
    => /\ call.err # "none"
       /\ \A i \in DOMAIN call.invoked : call.invoked[i] \in Operations

\* A normalize call that ran operations only and then failed on the unknown
\* name no_such_step.
FailsAtUnknown(c) ==
  /\ HasList(c)
  /\ c.err = "AttributeError"
  /\ \E i \in DOMAIN ListOf(c) :
       /\ ListOf(c)[i].name = "no_such_step"
       /\ Len(c.invoked) = i - 1
       /\ \A j \in 1..(i - 1) : ListOf(c)[j].name \in Operations

\* C4 as stated: a normalize call that fails on an unknown step name leaves the
\* stop-word set and the character-class cache as they were before the call.
C4_UnknownLeavesState ==
  FailsAtUnknown(call)
       => /\ instance.stop_words = before.stop_words
          /\ instance.characters_regexes = before.characters_regexes

\* C5 as stated: remove_stop_words reads the stop-word resource once, in the
\* first call on an instance constructed with lazy loading, and in no other
\* call; on an instance constructed with eager loading it never reads it.
C5_LoadedOnce ==
  (call.op = "remove_stop_words" /\ call.err = "none")
       => call.loads = IF before.lazy_load /\ ~before.loaded THEN 1 ELSE 0

\* C6 as stated: the cache holds at most one entry per set of characters.
C6_OneEntryPerSet ==
  \A k1, k2 \in DOMAIN instance.characters_regexes :
    Range(k1) = Range(k2) => k1 = k2

\* C7 as stated: on an instance whose language code has no stop-word resource,
\* eager construction fails with the resource error, lazy construction
\* succeeds, every operation but remove_stop_words succeeds, and
\* remove_stop_words fails with the resource error and returns nothing.
C7_MissingResource ==
  /\ (call.op = "__init__" /\ call.text \in Languages \ DOMAIN StopFiles)
       => IF call.kwargs.lazy_load
            THEN phase = "returned" /\ call.err = "none"
            ELSE phase = "failed" /\ call.err = "IOError"
  /\ (phase = "returned" /\ instance.language \in Languages \ DOMAIN StopFiles)
       => /\ call.op \in Operations \ {"remove_stop_words"} => call.err = "none"
          /\ call.op = "remove_stop_words"
               => call.err = "IOError" /\ call.ret = NoneValue

\* An empty characters argument, given directly or as the one step of a list.
EmptyCharacters(c) ==
  \/ c.op = "replace_characters" /\ c.kwargs.characters = <<>>
  \/ /\ HasList(c)
     /\ ListOf(c) = << Pair("replace_characters",
                            [characters |-> <<>>, replacement |-> <<"_">>]) >>

\* C8: replace_characters with empty characters returns the text it was given,
\* raises nothing and leaves the character-class cache as it was.
C8_EmptyCharacters ==
  EmptyCharacters(call)
       => /\ call.ret = call.text
          /\ call.err = "none"
          /\ call.compiled = {}
          /\ instance = before

\* C8 witness: replace_characters(sentence, "", "_") has returned the sentence.
C8_Witness ==
  /\ call.op = "replace_characters"
  /\ call.kwargs = [characters |-> <<>>, replacement |-> <<"_">>]
  /\ call.text = Sentence
  /\ call.ret = Sentence
  /\ call.err = "none"

\* C9 as stated: a call only adds to the instance: the stop-word set after it
\* holds the set before it, every cache key is kept with its matcher, and only
\* remove_stop_words, replace_characters, replace_punctuation and the normalize
\* calls that run them change the state.
C9_OnlyGrows ==
  (phase = "returned" /\ call.op # "__init__")
       => /\ before.stop_words \subseteq instance.stop_words
          /\ \A k \in DOMAIN before.characters_regexes :
               /\ k \in DOMAIN instance.characters_regexes
               /\ instance.characters_regexes[k] = before.characters_regexes[k]
               /\ k \notin call.compiled
          /\ instance # before
               => \/ call.op \in {"remove_stop_words", "replace_characters",
                                   "replace_punctuation"}
                  \/ /\ call.op = "normalize"
                     /\ \E i \in DOMAIN call.invoked :
                          call.invoked[i] \in {"remove_stop_words", "replace_characters",
                                                "replace_punctuation"}

\* C10: normalize given an empty step list runs the four default steps in
\* their order, as a call without a step list does, and so does not return the
\* sentence as it was given.
C10_EmptyListRunsDefaults ==
  (HasList(call) /\ ListOf(call) = <<>>)
       => /\ SameOutcome(call, instance, InOrder(before, call.text, FourSteps))
          /\ RanFourSteps(call)
          /\ call.text = Sentence => call.ret # Sentence

\* C10 witness: normalize(sentence, []) has returned "cat".
C10_Witness ==
  /\ HasList(call)
  /\ ListOf(call) = <<>>
  /\ call.text = Sentence
  /\ call.err = "none"
  /\ call.ret = Cat

====
